---- MODULE Spec2Model ----
(***************************************************************************)
(* The report scheduler: the pagination engine of its PDF generation       *)
(* service, the page-readiness waits (waitForDOMStability, smartWait), the *)
(* generation service (handler, generatePdf, generateAllSheetsPdf,         *)
(* generateCsv), the email sender and the schedule processor.  Each part   *)
(* has its own specification over the shared variables; the parts that a   *)
(* specification does not run stay idle.                                   *)
(*                                                                         *)
(* Three paginator modules are modelled:                                   *)
(*   pivot      pivot-table-paginator.js  (paginateTableData)              *)
(*   aggregate  aggregate-table-paginator.js (paginateAggregateTable)      *)
(*   data       data-table-paginator.js   (paginateDataTable)              *)
(*                                                                         *)
(* JavaScript values are encoded as follows.  An optional value (a         *)
(* property that may be undefined, an argument that may be null) is a      *)
(* sequence of length 0 or 1: None is undefined/null, Some(v) is v.  Pixel *)
(* amounts are exact rationals with denominator 127 (25.4 mm = 127/5 in),  *)
(* kept as integer numerators.  A function call ends in a completion       *)
(* record: it returns a value or throws.                                   *)
(***************************************************************************)
EXTENDS Integers, Sequences, FiniteSets, TLC

VARIABLES
    data,       \* the table model handed to the paginator (optional)
    options,    \* the options object handed to the paginator
    called,     \* which paginator has run: "none" before the call
    result,     \* completion of the paginator call
    args,       \* arguments of the getDataRowsPerPage calls
    dataRows,   \* per module: completion of getDataRowsPerPage(args), if called
    now,        \* the clock, in ms (Date.now())
    dom,        \* waitForDOMStability: the closure of its in-page promise
    sw,         \* smartWait: its options, its checks and its maxWait timer
    gen,        \* generation service: one request through handler and generator
    mail,       \* email sender: one S3 event through the handler
    sched       \* schedule processor: one run of the handler

paginatorVars == <<data, options, called, result, args, dataRows>>

serviceVars == <<now, dom, sw, gen, mail, sched>>

vars == <<data, options, called, result, args, dataRows, now, dom, sw, gen, mail, sched>>

\* the services before any of them is called
Idle == [state |-> "idle"]

ServicesIdle ==
    /\ now = 0
    /\ dom = Idle
    /\ sw = Idle
    /\ gen = Idle
    /\ mail = Idle
    /\ sched = Idle

----------------------------------------------------------------------------
(* Bounds of the model *)

MaxRows == 5            \* longest row sequence of a table model
MaxHeaderRows == 28     \* tallest header block of a table model
MaxBudgetHeaderRows == 50   \* largest headerRowCount given to getDataRowsPerPage

----------------------------------------------------------------------------
(* JavaScript value encoding *)

None == <<>>
Some(v) == <<v>>
Default(x, d) == IF x = None THEN d ELSE x[1]

Return(v) == [completion |-> "return", value |-> v]
Throw == [completion |-> "throw"]
NotCalled == [completion |-> "none"]

Max(a, b) == IF a >= b THEN a ELSE b

\* Property names every object literal inherits from Object.prototype; the
\* value found under such a name is a function, hence truthy and not a number.
ObjectPrototypeKeys == {"constructor", "toString", "valueOf", "hasOwnProperty"}

----------------------------------------------------------------------------
(* Page budget: getDataRowsPerPage *)

PxDenominator == 127
DPI == 96
rowHeightPx == 27
verticalPagePaddingPx == 40
roundingSafetyPx == 16
pageHeaderPxPivot == 64
pageHeaderPxAggregate == 56
pageHeaderPxData == 56

Modules == {"pivot", "aggregate", "data"}

pageHeaderPx(m) ==
    CASE m = "pivot" -> pageHeaderPxPivot
      [] m = "aggregate" -> pageHeaderPxAggregate
      [] m = "data" -> pageHeaderPxData

\* (mm / 25.4) * DPI, as a numerator over PxDenominator
mmToPx(mm) == (mm * 10 * DPI * PxDenominator) \div 254

\* whole pixels as a numerator over PxDenominator
Px(n) == n * PxDenominator

pageHeightsPx ==
    [Letter |-> [portrait |-> Px(11 * DPI), landscape |-> Px((85 * DPI) \div 10)],
     Legal  |-> [portrait |-> Px(14 * DPI), landscape |-> Px((85 * DPI) \div 10)],
     A4     |-> [portrait |-> mmToPx(297), landscape |-> mmToPx(210)],
     A3     |-> [portrait |-> mmToPx(420), landscape |-> mmToPx(297)],
     A5     |-> [portrait |-> mmToPx(210), landscape |-> mmToPx(148)]]

\* (pageHeightsPx[pageSize] || pageHeightsPx.Letter)[orientation]
\*     || pageHeightsPx.Letter.portrait
\* Some(px) when the expression is a number, None when it is an inherited
\* function (property lookup walks the prototype chain).
heightPx(pageSize, orientation) ==
    LET fallback == Some(pageHeightsPx.Letter.portrait)
        OfSize(s) == IF orientation \in DOMAIN pageHeightsPx[s]
                       THEN Some(pageHeightsPx[s][orientation])
                     ELSE IF orientation \in ObjectPrototypeKeys THEN None
                     ELSE fallback
    IN  IF pageSize \in DOMAIN pageHeightsPx THEN OfSize(pageSize)
        ELSE IF pageSize \in ObjectPrototypeKeys
               THEN IF orientation \in ObjectPrototypeKeys THEN None ELSE fallback
        ELSE OfSize("Letter")

\* headerRowsOrOne without the fallback to one row
headerRowsAsGiven(headerRowCount) == headerRowCount

\* headerRowCount || 1
headerRowsOrOne(headerRowCount) == IF headerRowCount = 0 THEN 1 ELSE headerRowCount

\* availablePx with the header block added instead of subtracted
availablePxPlusHeaders(m, height, headerRowCount) ==
    height - mmToPx(15 + 15) - Px(verticalPagePaddingPx) - Px(pageHeaderPx(m))
      + Px(headerRowsOrOne(headerRowCount) * rowHeightPx) - Px(roundingSafetyPx)

availablePx(m, height, headerRowCount) ==
    height - mmToPx(15 + 15) - Px(verticalPagePaddingPx) - Px(pageHeaderPx(m))
      - Px(headerRowsOrOne(headerRowCount) * rowHeightPx) - Px(roundingSafetyPx)

\* dataRowsOf without the row of headroom
dataRowsOfNoHeadroom(available) == Max(1, available \div Px(rowHeightPx))

\* Math.max(1, Math.floor(availablePx / rowHeightPx) - 1)
dataRowsOf(available) == Max(1, (available \div Px(rowHeightPx)) - 1)

\* The function throws where heightPx is not a number: heightPx.toFixed(1) in
\* the logging statement is then not a function.
getDataRowsPerPage(m, pageSize, orientation, headerRowCount) ==
    LET height == heightPx(pageSize, orientation)
    IN  IF height = None THEN Throw
        ELSE Return(dataRowsOf(availablePx(m, height[1], headerRowCount)))

----------------------------------------------------------------------------
(* Pages *)

\* pages of the pivot and aggregate paginators; totalPages is unset
\* (undefined) until the final pass
createNewPage(headers, pageNumber, metadata) ==
    [headers |-> headers, rows |-> <<>>, pageNumber |-> pageNumber,
     metadata |-> metadata, grandTotal |-> Some("null"), totalPages |-> None]

\* pages of the data-table paginator have no grandTotal property
createNewPageData(headers, pageNumber, metadata) ==
    [headers |-> headers, rows |-> <<>>, pageNumber |-> pageNumber,
     metadata |-> metadata, grandTotal |-> None, totalPages |-> None]

NewPage(m, headers, pageNumber, metadata) ==
    IF m = "data" THEN createNewPageData(headers, pageNumber, metadata)
    ELSE createNewPage(headers, pageNumber, metadata)

----------------------------------------------------------------------------
(* Subtotal grouper: groupRowsWithSubtotals *)

\* groupStep that closes the group before it pushes the row: a subtotal row
\* opens the next group
groupStepCloseFirst(st, rows, i) ==
    IF rows[i].type = "subtotal" \/ i - 1 = Len(rows) - 1
      THEN IF Len(st.currentGroup) > 0
             THEN [groups |-> Append(st.groups, st.currentGroup),
                   currentGroup |-> <<rows[i]>>]
             ELSE [groups |-> st.groups, currentGroup |-> <<rows[i]>>]
      ELSE [groups |-> st.groups, currentGroup |-> Append(st.currentGroup, rows[i])]

\* one iteration of rows.forEach((row, index) => ...), index = i - 1
groupStep(st, rows, i) ==
    LET pushed == Append(st.currentGroup, rows[i])
    IN  IF rows[i].type = "subtotal" \/ i - 1 = Len(rows) - 1
          THEN IF Len(pushed) > 0
                 THEN [groups |-> Append(st.groups, pushed), currentGroup |-> <<>>]
                 ELSE [groups |-> st.groups, currentGroup |-> pushed]
          ELSE [groups |-> st.groups, currentGroup |-> pushed]

\* rows.forEach over rows[lo..hi], in order. A run of several rows is taken as
\* its first half followed by its second half; the guard on the first half's
\* state is always true and only makes that half be evaluated first, so that
\* the depth of evaluation grows with the logarithm of the number of rows.
RECURSIVE groupLoop(_, _, _, _)
groupLoop(st, rows, lo, hi) ==
    IF lo > hi THEN st
    ELSE IF lo = hi THEN groupStep(st, rows, lo)
    ELSE LET mid == (lo + hi) \div 2
             firstHalf == groupLoop(st, rows, lo, mid)
         IN  IF Len(firstHalf.groups) >= 0
               THEN groupLoop(firstHalf, rows, mid + 1, hi)
               ELSE firstHalf

groupRowsWithSubtotals(rows) ==
    LET st == groupLoop([groups |-> <<>>, currentGroup |-> <<>>], rows, 1, Len(rows))
    IN  IF Len(st.currentGroup) > 0 THEN Append(st.groups, st.currentGroup)
        ELSE st.groups

----------------------------------------------------------------------------
(* Page assembler *)

\* closePage numbering the new page from the page count before the push
closePageStale(m, st, headers, metadata) ==
    [pages |-> Append(st.pages, st.currentPage),
     currentPage |-> NewPage(m, headers, Len(st.pages) + 1, metadata),
     currentRowCount |-> 0]

\* pages.push(currentPage); currentPage = createNewPage(headers, pages.length + 1, metadata)
closePage(m, st, headers, metadata) ==
    LET pushed == Append(st.pages, st.currentPage)
    IN  [pages |-> pushed,
         currentPage |-> NewPage(m, headers, Len(pushed) + 1, metadata),
         currentRowCount |-> 0]

\* groupedStep that starts a new page only for a group that would fit on one
groupedStepFitOnly(m, st, group, headers, maxDataRowsPerPage, metadata) ==
    LET groupSize == Len(group)
        wouldExceed == st.currentRowCount + groupSize > maxDataRowsPerPage
        hasContent == Len(st.currentPage.rows) > 0
        s1 == IF wouldExceed /\ hasContent /\ groupSize <= maxDataRowsPerPage
                THEN closePage(m, st, headers, metadata)
              ELSE st
    IN  [s1 EXCEPT !.currentPage.rows = @ \o group,
                   !.currentRowCount = @ + groupSize]

\* groupedStep that closes every page that has rows: one group per page
groupedStepOnePerPage(m, st, group, headers, maxDataRowsPerPage, metadata) ==
    LET groupSize == Len(group)
        hasContent == Len(st.currentPage.rows) > 0
        s1 == IF hasContent THEN closePage(m, st, headers, metadata)
              ELSE st
    IN  [s1 EXCEPT !.currentPage.rows = @ \o group,
                   !.currentRowCount = @ + groupSize]

\* groupedStep that closes the page already when the group fills it exactly
groupedStepEager(m, st, group, headers, maxDataRowsPerPage, metadata) ==
    LET groupSize == Len(group)
        wouldExceed == st.currentRowCount + groupSize >= maxDataRowsPerPage
        hasContent == Len(st.currentPage.rows) > 0
        s1 == IF wouldExceed /\ hasContent THEN closePage(m, st, headers, metadata)
              ELSE st
    IN  [s1 EXCEPT !.currentPage.rows = @ \o group,
                   !.currentRowCount = @ + groupSize]

\* one iteration of rowGroups.forEach(group => ...)
groupedStep(m, st, group, headers, maxDataRowsPerPage, metadata) ==
    LET groupSize == Len(group)
        wouldExceed == st.currentRowCount + groupSize > maxDataRowsPerPage
        hasContent == Len(st.currentPage.rows) > 0
        s1 == IF wouldExceed /\ hasContent THEN closePage(m, st, headers, metadata)
              ELSE st
    IN  [s1 EXCEPT !.currentPage.rows = @ \o group,
                   !.currentRowCount = @ + groupSize]

\* simpleStep that closes the page only once it holds more than the budget
simpleStepLate(m, st, row, headers, maxDataRowsPerPage, metadata) ==
    LET s1 == IF st.currentRowCount > maxDataRowsPerPage
                  /\ Len(st.currentPage.rows) > 0
                THEN closePage(m, st, headers, metadata)
              ELSE st
    IN  [s1 EXCEPT !.currentPage.rows = Append(@, row),
                   !.currentRowCount = @ + 1]

\* simpleStep with the push in an else branch: the row that closes a page is lost
simpleStepElse(m, st, row, headers, maxDataRowsPerPage, metadata) ==
    IF st.currentRowCount >= maxDataRowsPerPage /\ Len(st.currentPage.rows) > 0
      THEN closePage(m, st, headers, metadata)
      ELSE [st EXCEPT !.currentPage.rows = Append(@, row),
                      !.currentRowCount = @ + 1]

\* one iteration of rows.forEach((row) => ...)
simpleStep(m, st, row, headers, maxDataRowsPerPage, metadata) ==
    LET s1 == IF st.currentRowCount >= maxDataRowsPerPage
                  /\ Len(st.currentPage.rows) > 0
                THEN closePage(m, st, headers, metadata)
              ELSE st
    IN  [s1 EXCEPT !.currentPage.rows = Append(@, row),
                   !.currentRowCount = @ + 1]

\* rowGroups.forEach over rowGroups[lo..hi], in order, by halves as groupLoop
RECURSIVE groupedLoop(_, _, _, _, _, _, _, _)
groupedLoop(m, st, rowGroups, lo, hi, headers, maxDataRowsPerPage, metadata) ==
    IF lo > hi THEN st
    ELSE IF lo = hi
      THEN groupedStep(m, st, rowGroups[lo], headers, maxDataRowsPerPage, metadata)
    ELSE LET mid == (lo + hi) \div 2
             firstHalf == groupedLoop(m, st, rowGroups, lo, mid, headers,
                                      maxDataRowsPerPage, metadata)
         IN  IF firstHalf.currentRowCount >= 0
               THEN groupedLoop(m, firstHalf, rowGroups, mid + 1, hi, headers,
                                maxDataRowsPerPage, metadata)
               ELSE firstHalf

\* rows.forEach over rows[lo..hi], in order, by halves as groupLoop
RECURSIVE simpleLoop(_, _, _, _, _, _, _, _)
simpleLoop(m, st, rows, lo, hi, headers, maxDataRowsPerPage, metadata) ==
    IF lo > hi THEN st
    ELSE IF lo = hi
      THEN simpleStep(m, st, rows[lo], headers, maxDataRowsPerPage, metadata)
    ELSE LET mid == (lo + hi) \div 2
             firstHalf == simpleLoop(m, st, rows, lo, mid, headers,
                                     maxDataRowsPerPage, metadata)
         IN  IF firstHalf.currentRowCount >= 0
               THEN simpleLoop(m, firstHalf, rows, mid + 1, hi, headers,
                               maxDataRowsPerPage, metadata)
               ELSE firstHalf

\* let currentPage = createNewPage(headers, pages.length + 1, metadata);
\* let currentRowCount = 0;   with pages = []
startState(m, headers, metadata) ==
    [pages |-> <<>>, currentPage |-> NewPage(m, headers, 1, metadata),
     currentRowCount |-> 0]

\* if (currentPage.rows.length > 0) pages.push(currentPage)
pushRemaining(st) ==
    IF Len(st.currentPage.rows) > 0 THEN Append(st.pages, st.currentPage)
    ELSE st.pages

assembleSimple(m, headers, rows, maxDataRowsPerPage, metadata) ==
    pushRemaining(simpleLoop(m, startState(m, headers, metadata), rows, 1,
                             Len(rows), headers, maxDataRowsPerPage, metadata))

\* assembleGrouped that packs row by row, ignoring the groups
assembleGroupedByRow(m, headers, rows, maxDataRowsPerPage, metadata) ==
    assembleSimple(m, headers, rows, maxDataRowsPerPage, metadata)

assembleGrouped(m, headers, rows, maxDataRowsPerPage, metadata) ==
    LET rowGroups == groupRowsWithSubtotals(rows)
    IN  pushRemaining(groupedLoop(m, startState(m, headers, metadata),
                                  rowGroups, 1, Len(rowGroups), headers,
                                  maxDataRowsPerPage, metadata))

\* rows.some(r => r.type === 'subtotal')
someSubtotal(rows) == \E i \in 1..Len(rows) : rows[i].type = "subtotal"

\* placeGrandTotal with a strict comparison: a last page with one free row
\* is taken to be full
placeGrandTotalStrict(pages, headers, grandTotal, numHeaderRows, totalRowsPerPage, metadata) ==
    IF grandTotal # "null" /\ Len(pages) > 0
      THEN LET lastPage == pages[Len(pages)]
               totalRowsOnLastPage == numHeaderRows + Len(lastPage.rows) + 1
           IN  IF totalRowsOnLastPage < totalRowsPerPage
                 THEN [pages EXCEPT ![Len(pages)].grandTotal = Some(grandTotal)]
                 ELSE Append(pages,
                             [createNewPage(headers, Len(pages) + 1, metadata)
                                EXCEPT !.grandTotal = Some(grandTotal)])
      ELSE pages

\* placeGrandTotal whose grand-total page is created without the headers
placeGrandTotalBare(pages, headers, grandTotal, numHeaderRows, totalRowsPerPage, metadata) ==
    IF grandTotal # "null" /\ Len(pages) > 0
      THEN LET lastPage == pages[Len(pages)]
               totalRowsOnLastPage == numHeaderRows + Len(lastPage.rows) + 1
           IN  IF totalRowsOnLastPage <= totalRowsPerPage
                 THEN [pages EXCEPT ![Len(pages)].grandTotal = Some(grandTotal)]
                 ELSE Append(pages,
                             [createNewPage(None, Len(pages) + 1, metadata)
                                EXCEPT !.grandTotal = Some(grandTotal)])
      ELSE pages

\* grand total: on the last page if it fits, else on a new page
placeGrandTotal(pages, headers, grandTotal, numHeaderRows, totalRowsPerPage, metadata) ==
    IF grandTotal # "null" /\ Len(pages) > 0
      THEN LET lastPage == pages[Len(pages)]
               totalRowsOnLastPage == numHeaderRows + Len(lastPage.rows) + 1
           IN  IF totalRowsOnLastPage <= totalRowsPerPage
                 THEN [pages EXCEPT ![Len(pages)].grandTotal = Some(grandTotal)]
                 ELSE Append(pages,
                             [createNewPage(headers, Len(pages) + 1, metadata)
                                EXCEPT !.grandTotal = Some(grandTotal)])
      ELSE pages

\* pages.forEach((page) => { page.totalPages = pages.length; })
stampTotalPages(pages) ==
    [i \in 1..Len(pages) |-> [pages[i] EXCEPT !.totalPages = Some(Len(pages))]]

\* const numHeaderRows = headers ? headers.length : 1   (an empty array is truthy)
numHeaderRowsOf(headers) == IF headers = None THEN 1 ELSE Len(headers[1])

----------------------------------------------------------------------------
(* The three paginators *)

\* pivot and aggregate paginators: same body, each with its own budget
paginateWithTotals(m, d, opts) ==
    IF d = None THEN Return(<<>>)
    ELSE
      LET pageSize == Default(opts.pageSize, "Letter")
          orientation == Default(opts.orientation, "portrait")
          keepSubtotalsTogether == Default(opts.keepSubtotalsTogether, TRUE)
          headers == d[1].headers
          rows == d[1].rows
          grandTotal == d[1].grandTotal
          metadata == d[1].metadata
          numHeaderRows == numHeaderRowsOf(headers)
          budget == getDataRowsPerPage(m, pageSize, orientation, numHeaderRows)
      IN  IF budget.completion = "throw" THEN Throw
          ELSE
            LET maxDataRowsPerPage == budget.value
                totalRowsPerPage == maxDataRowsPerPage + numHeaderRows
                assembled ==
                    IF keepSubtotalsTogether /\ someSubtotal(rows)
                      THEN assembleGrouped(m, headers, rows, maxDataRowsPerPage, metadata)
                      ELSE assembleSimple(m, headers, rows, maxDataRowsPerPage, metadata)
            IN  Return(stampTotalPages(
                         placeGrandTotal(assembled, headers, grandTotal,
                                         numHeaderRows, totalRowsPerPage, metadata)))

paginateTableData(d, opts) == paginateWithTotals("pivot", d, opts)

paginateAggregateTable(d, opts) == paginateWithTotals("aggregate", d, opts)

paginateDataTable(d, opts) ==
    IF d = None THEN Return(<<>>)
    ELSE
      LET pageSize == Default(opts.pageSize, "Letter")
          orientation == Default(opts.orientation, "portrait")
          headers == d[1].headers
          rows == d[1].rows
          metadata == d[1].metadata
          numHeaderRows == numHeaderRowsOf(headers)
          budget == getDataRowsPerPage("data", pageSize, orientation, numHeaderRows)
      IN  IF budget.completion = "throw" THEN Throw
          ELSE Return(stampTotalPages(
                        assembleSimple("data", headers, rows, budget.value, metadata)))

----------------------------------------------------------------------------
(* Inputs *)

RowTypes == {"data", "subtotal"}

\* rows as the extractors build them: a type and the position in the table body
MakeRows(types) == [i \in 1..Len(types) |-> [type |-> types[i], index |-> i - 1]]

\* the tables of n data rows that fill one Letter portrait page with one
\* header row exactly, and by one row more
FullPageRows == getDataRowsPerPage("pivot", "Letter", "portrait", 1).value

FullPageRowInputs ==
    {MakeRows([i \in 1..n |-> "data"]) : n \in {FullPageRows, FullPageRows + 1}}

\* the tables of the two concrete pagination scenarios: 100 data rows, and
\* [d,d,S,d,d,d,S,d]
Scenario1Rows == MakeRows([i \in 1..100 |-> "data"])

Scenario2Rows ==
    MakeRows(<<"data", "data", "subtotal", "data", "data", "data", "subtotal", "data">>)

RowInputs ==
    UNION {{MakeRows(types) : types \in [1..n -> RowTypes]} : n \in 0..MaxRows}
      \cup FullPageRowInputs \cup {Scenario1Rows, Scenario2Rows}

MakeHeaders(n) == [i \in 1..n |-> [headerRow |-> i]]

HeaderCounts == {0, 1} \cup ((MaxHeaderRows - 2)..MaxHeaderRows)

HeaderInputs == {None} \cup {Some(MakeHeaders(n)) : n \in HeaderCounts}

GrandTotalInputs == {"null", "grandTotalRow"}

TableModels ==
    [headers : HeaderInputs, rows : RowInputs, grandTotal : GrandTotalInputs,
     metadata : {"metadata"}]

DataInputs == {None} \cup {Some(d) : d \in TableModels}

PageSizeInputs == {"Letter", "Legal", "A4", "A3", "A5", "Tabloid", "letter", "constructor"}

OrientationInputs == {"portrait", "landscape", "diagonal", "constructor"}

OptionInputs ==
    [pageSize : {None} \cup {Some(p) : p \in PageSizeInputs},
     orientation : {None} \cup {Some(o) : o \in OrientationInputs},
     keepSubtotalsTogether : {None, Some(TRUE), Some(FALSE)}]

NoArgs == [pageSize |-> "Letter", orientation |-> "portrait", headerRowCount |-> 1]

NoOptions == [pageSize |-> None, orientation |-> None, keepSubtotalsTogether |-> None]

NoDataRows == [m \in Modules |-> NotCalled]

----------------------------------------------------------------------------
(* Specification of the paginator calls *)

Init ==
    /\ data \in DataInputs
    /\ options \in OptionInputs
    /\ called = "none"
    /\ result = NotCalled
    /\ args = NoArgs
    /\ dataRows = NoDataRows
    /\ ServicesIdle

PaginateTableData ==
    /\ called = "none"
    /\ called' = "paginateTableData"
    /\ result' = paginateTableData(data, options)
    /\ UNCHANGED <<data, options, args, dataRows>>
    /\ UNCHANGED serviceVars

\* PaginateAggregateTable taking the rows out of the model as it places them
\* (rows.shift() instead of rows.forEach)
PaginateAggregateTableConsuming ==
    /\ called = "none"
    /\ called' = "paginateAggregateTable"
    /\ result' = paginateAggregateTable(data, options)
    /\ data' = IF data = None THEN data ELSE Some([data[1] EXCEPT !.rows = <<>>])
    /\ UNCHANGED <<options, args, dataRows>>
    /\ UNCHANGED serviceVars

PaginateAggregateTable ==
    /\ called = "none"
    /\ called' = "paginateAggregateTable"
    /\ result' = paginateAggregateTable(data, options)
    /\ UNCHANGED <<data, options, args, dataRows>>
    /\ UNCHANGED serviceVars

PaginateDataTable ==
    /\ called = "none"
    /\ called' = "paginateDataTable"
    /\ result' = paginateDataTable(data, options)
    /\ UNCHANGED <<data, options, args, dataRows>>
    /\ UNCHANGED serviceVars

Next == PaginateTableData \/ PaginateAggregateTable \/ PaginateDataTable

Spec == Init /\ [][Next]_vars

----------------------------------------------------------------------------
(* Specification of the budget calculator calls *)

BudgetInit ==
    /\ args \in [pageSize : PageSizeInputs, orientation : OrientationInputs,
                 headerRowCount : 0..MaxBudgetHeaderRows]
    /\ dataRows = NoDataRows
    /\ ServicesIdle
    /\ data = None
    /\ options = NoOptions
    /\ called = "none"
    /\ result = NotCalled

GetDataRowsPerPagePivot ==
    /\ dataRows["pivot"] = NotCalled
    /\ dataRows' = [dataRows EXCEPT
                      !["pivot"] = getDataRowsPerPage("pivot", args.pageSize,
                                    args.orientation, args.headerRowCount)]
    /\ UNCHANGED <<data, options, called, result, args>>
    /\ UNCHANGED serviceVars

GetDataRowsPerPageAggregate ==
    /\ dataRows["aggregate"] = NotCalled
    /\ dataRows' = [dataRows EXCEPT
                      !["aggregate"] = getDataRowsPerPage("aggregate", args.pageSize,
                                    args.orientation, args.headerRowCount)]
    /\ UNCHANGED <<data, options, called, result, args>>
    /\ UNCHANGED serviceVars

GetDataRowsPerPageData ==
    /\ dataRows["data"] = NotCalled
    /\ dataRows' = [dataRows EXCEPT
                      !["data"] = getDataRowsPerPage("data", args.pageSize,
                                    args.orientation, args.headerRowCount)]
    /\ UNCHANGED <<data, options, called, result, args>>
    /\ UNCHANGED serviceVars

BudgetNext ==
    GetDataRowsPerPagePivot \/ GetDataRowsPerPageAggregate \/ GetDataRowsPerPageData

BudgetSpec == BudgetInit /\ [][BudgetNext]_vars

----------------------------------------------------------------------------
(* Vocabulary of the properties *)

Returned == called # "none" /\ result.completion = "return"

Pages == result.value

HasModel == data # None

Model == data[1]

ModuleOf(c) ==
    CASE c = "paginateTableData" -> "pivot"
      [] c = "paginateAggregateTable" -> "aggregate"
      [] c = "paginateDataTable" -> "data"

WithTotals == called \in {"paginateTableData", "paginateAggregateTable"}

\* the row budget of the call
MaxDataRows ==
    getDataRowsPerPage(ModuleOf(called), Default(options.pageSize, "Letter"),
                       Default(options.orientation, "portrait"),
                       numHeaderRowsOf(Model.headers)).value

GroupedMode ==
    /\ WithTotals
    /\ Default(options.keepSubtotalsTogether, TRUE)
    /\ someSubtotal(Model.rows)

HasGrandTotal == Model.grandTotal # "null"

RECURSIVE ConcatRows(_, _, _)
ConcatRows(pages, lo, hi) ==
    IF lo > hi THEN <<>>
    ELSE IF lo = hi THEN pages[lo].rows
    ELSE LET mid == (lo + hi) \div 2
         IN  ConcatRows(pages, lo, mid) \o ConcatRows(pages, mid + 1, hi)

\* the page (position in the output) on which the i-th input row lies
PagesOfRow(i) ==
    {p \in 1..Len(Pages) : \E k \in 1..Len(Pages[p].rows) : Pages[p].rows[k] = Model.rows[i]}

\* rows i <= j lie in the same group: no subtotal row from i up to j - 1
SameGroup(i, j) == \A k \in i..(j - 1) : Model.rows[k].type # "subtotal"

\* size of the group holding row i
GroupSizeAt(i) ==
    Cardinality({j \in 1..Len(Model.rows) :
                    IF j <= i THEN SameGroup(j, i) ELSE SameGroup(i, j)})

OnlyGrandTotal(page) == page.rows = <<>> /\ page.grandTotal = Some(Model.grandTotal)

----------------------------------------------------------------------------
(* C1  Conservation: for each of the three paginators, the rows of the     *)
(* output pages, concatenated in page order, are exactly the input rows.   *)

Conservation ==
    (Returned /\ HasModel) => ConcatRows(Pages, 1, Len(Pages)) = Model.rows

\* grouped pagination over several pages that ends in a page holding only
\* the grand total
ConservationWitness ==
    /\ Returned /\ HasModel /\ GroupedMode /\ HasGrandTotal
    /\ Len(Pages) >= 3
    /\ OnlyGrandTotal(Pages[Len(Pages)])
    /\ Len(Model.rows) = MaxRows

----------------------------------------------------------------------------
(* C2  Grouping integrity: in grouped mode every group of at most          *)
(* maxDataRows rows has all its rows on one and the same page.             *)

GroupingIntegrity ==
    (Returned /\ HasModel /\ GroupedMode) =>
        \A i, j \in 1..Len(Model.rows) :
            (i <= j /\ SameGroup(i, j) /\ GroupSizeAt(i) <= MaxDataRows) =>
                \E p \in 1..Len(Pages) : PagesOfRow(i) = {p} /\ PagesOfRow(j) = {p}

\* a page is closed before it is full because the next group, of two or more
\* rows, does not fit on it
GroupingIntegrityWitness ==
    /\ Returned /\ HasModel /\ GroupedMode
    /\ \E p \in 1..(Len(Pages) - 1) :
          /\ Len(Pages[p].rows) < MaxDataRows
          /\ Len(Pages[p + 1].rows) >= 2
          /\ GroupSizeAt(Pages[p + 1].rows[1].index + 1) >= 2
          /\ GroupSizeAt(Pages[p + 1].rows[1].index + 1) <= MaxDataRows

----------------------------------------------------------------------------
(* C3  A grand total that is present is carried by exactly one page of the *)
(* output, the last one, whatever the row sequence, the empty one included.*)

GrandTotalOnLastPage ==
    (Returned /\ HasModel /\ WithTotals /\ HasGrandTotal) =>
        /\ Len(Pages) >= 1
        /\ \A p \in 1..Len(Pages) :
              IF p = Len(Pages) THEN Pages[p].grandTotal = Some(Model.grandTotal)
              ELSE Pages[p].grandTotal = Some("null")

----------------------------------------------------------------------------
(* C4  Grand-total placement: when assembly produced a page, the grand     *)
(* total goes on the page of the final data rows iff                       *)
(* headerRowCount + lastPage.rows.length + 1 <= headerRowCount +           *)
(* maxDataRows; otherwise on a new last page with the headers, no rows and *)
(* the next page number.                                                   *)

\* the page holding the final data row
FinalDataPage == CHOOSE p \in 1..Len(Pages) : p \in PagesOfRow(Len(Model.rows))

GrandTotalFits ==
    numHeaderRowsOf(Model.headers) + Len(Pages[FinalDataPage].rows) + 1
        <= numHeaderRowsOf(Model.headers) + MaxDataRows

GrandTotalPlacement ==
    (Returned /\ HasModel /\ WithTotals /\ HasGrandTotal /\ Model.rows # <<>>) =>
        /\ PagesOfRow(Len(Model.rows)) # {}
        /\ IF GrandTotalFits
             THEN /\ Len(Pages) = FinalDataPage
                  /\ Pages[FinalDataPage].grandTotal = Some(Model.grandTotal)
             ELSE /\ Len(Pages) = FinalDataPage + 1
                  /\ Pages[FinalDataPage].grandTotal = Some("null")
                  /\ Pages[Len(Pages)].headers = Model.headers
                  /\ Pages[Len(Pages)].rows = <<>>
                  /\ Pages[Len(Pages)].pageNumber = FinalDataPage + 1
                  /\ Pages[Len(Pages)].grandTotal = Some(Model.grandTotal)

\* the worked example: one header row, a budget of 28, a last page of 28
\* rows, and the grand total alone on a second page
GrandTotalPlacementWitness ==
    /\ Returned /\ HasModel /\ WithTotals /\ HasGrandTotal
    /\ numHeaderRowsOf(Model.headers) = 1
    /\ MaxDataRows = 28
    /\ Len(Pages) = 2
    /\ Len(Pages[1].rows) = 28
    /\ OnlyGrandTotal(Pages[2])

----------------------------------------------------------------------------
(* C5  Page numbering: the i-th page has pageNumber = i and every page has *)
(* totalPages equal to the number of pages returned.                       *)

PageNumbering ==
    Returned =>
        \A i \in 1..Len(Pages) :
            /\ Pages[i].pageNumber = i
            /\ Pages[i].totalPages = Some(Len(Pages))

PageNumberingWitness ==
    /\ Returned /\ HasModel /\ WithTotals /\ HasGrandTotal
    /\ Len(Pages) >= 4
    /\ OnlyGrandTotal(Pages[Len(Pages)])
    /\ Pages[Len(Pages)].pageNumber = Len(Pages)

----------------------------------------------------------------------------
(* C6  Header repetition: every page returned, a page created only for the *)
(* grand total included, has the headers of the input model.               *)

HeaderRepetition ==
    (Returned /\ HasModel) =>
        \A i \in 1..Len(Pages) : Pages[i].headers = Model.headers

HeaderRepetitionWitness ==
    /\ Returned /\ HasModel /\ WithTotals /\ HasGrandTotal
    /\ Model.headers # None
    /\ Len(Model.headers[1]) >= 2
    /\ Len(Pages) >= 3
    /\ OnlyGrandTotal(Pages[Len(Pages)])
    /\ Pages[Len(Pages)].headers = Model.headers

----------------------------------------------------------------------------
(* Vocabulary of the budget properties *)

KnownPageSizes == {"Letter", "Legal", "A4", "A3", "A5"}

KnownOrientations == {"portrait", "landscape"}

Computed(m) == dataRows[m] # NotCalled

----------------------------------------------------------------------------
(* C7  The three variants stay in sync: for every known page size and      *)
(* orientation and every headerRowCount >= 1 the three getDataRowsPerPage  *)
(* return the same maxDataRows.                                            *)

BudgetsInSync ==
    (/\ args.pageSize \in KnownPageSizes
     /\ args.orientation \in KnownOrientations
     /\ args.headerRowCount >= 1
     /\ \A m \in Modules : Computed(m)) =>
        /\ dataRows["pivot"] = dataRows["aggregate"]
        /\ dataRows["aggregate"] = dataRows["data"]

----------------------------------------------------------------------------
(* C8  Worked example: Letter, portrait, one header row give a budget of   *)
(* exactly 28 rows in each of the three modules.                           *)

WorkedExampleArgs ==
    args = [pageSize |-> "Letter", orientation |-> "portrait", headerRowCount |-> 1]

WorkedBudget ==
    WorkedExampleArgs => \A m \in Modules : Computed(m) => dataRows[m] = Return(28)

WorkedBudgetWitness ==
    WorkedExampleArgs /\ \A m \in Modules : Computed(m) /\ dataRows[m].value = 28

----------------------------------------------------------------------------
(* C9  The budget calculator returns an integer >= 1 for every input, any  *)
(* pageSize and orientation value, any headerRowCount >= 0; it never fails.*)

BudgetAtLeastOne ==
    \A m \in Modules :
        Computed(m) =>
            /\ dataRows[m].completion = "return"
            /\ dataRows[m].value \in Int
            /\ dataRows[m].value >= 1

----------------------------------------------------------------------------
(* C10 Budget monotonicity: for a fixed pageSize and orientation the       *)
(* budget is non-increasing in headerRowCount.                             *)

BudgetMonotone ==
    \A m \in Modules :
        (Computed(m) /\ dataRows[m].completion = "return") =>
            \A h1 \in 0..args.headerRowCount :
                getDataRowsPerPage(m, args.pageSize, args.orientation, h1).value
                    >= dataRows[m].value

\* a budget that is strictly below the budget of a shorter header block and
\* not yet clamped
BudgetMonotoneWitness ==
    /\ args.headerRowCount >= 2
    /\ \A m \in Modules :
          /\ Computed(m) /\ dataRows[m].completion = "return"
          /\ dataRows[m].value > 1
          /\ getDataRowsPerPage(m, args.pageSize, args.orientation, 1).value
                > dataRows[m].value

----------------------------------------------------------------------------
(* C11 Unknown orientation falls back to portrait: for every known page    *)
(* size P and every orientation other than portrait and landscape the      *)
(* budget equals the budget of (P, portrait) with the same headerRowCount.  *)

OrientationFallsBackToPortrait ==
    (args.pageSize \in KnownPageSizes /\ args.orientation \notin KnownOrientations) =>
        \A m \in Modules :
            Computed(m) =>
                dataRows[m] = getDataRowsPerPage(m, args.pageSize, "portrait",
                                                 args.headerRowCount)

----------------------------------------------------------------------------
(* C12 Unknown pageSize falls back to Letter: for every page size outside  *)
(* the five known ones and every known orientation the budget equals the   *)
(* budget of (Letter, that orientation) with the same headerRowCount, and   *)
(* no error is raised.                                                     *)

PageSizeFallsBackToLetter ==
    (args.pageSize \notin KnownPageSizes /\ args.orientation \in KnownOrientations) =>
        \A m \in Modules :
            Computed(m) =>
                /\ dataRows[m].completion = "return"
                /\ dataRows[m] = getDataRowsPerPage(m, "Letter", args.orientation,
                                                    args.headerRowCount)

----------------------------------------------------------------------------
(* Vocabulary of the page shape properties *)

HasRows(page) == page.rows # <<>>

\* the pages that hold rows: all pages but a page made for the grand total
DataPages == SelectSeq(Pages, HasRows)

RowsOf(pages) == [p \in 1..Len(pages) |-> pages[p].rows]

RowCounts(pages) == [p \in 1..Len(pages) |-> Len(pages[p].rows)]

Scenario2 ==
    /\ Returned /\ HasModel /\ GroupedMode
    /\ Model.rows = Scenario2Rows
    /\ MaxDataRows = 5

Scenario2Groups ==
    <<SubSeq(Scenario2Rows, 1, 3), SubSeq(Scenario2Rows, 4, 7), SubSeq(Scenario2Rows, 8, 8)>>

----------------------------------------------------------------------------
(* C13 Concrete scenario 2, as claimed: [d,d,S,d,d,d,S,d] with             *)
(* maxDataRows = 5 forms the groups [d,d,S], [d,d,d,S], [d] and yields     *)
(* exactly three pages, one group each.                                    *)

Scenario2ThreePages ==
    Scenario2 =>
        /\ groupRowsWithSubtotals(Model.rows) = Scenario2Groups
        /\ RowsOf(DataPages) = Scenario2Groups

(* C13 as amended: the groups are [d,d,S], [d,d,d,S], [d] and the rows lie *)
(* on exactly two pages, [d,d,S] and [d,d,d,S,d]: the last group fits on   *)
(* the second page, 4 + 1 <= 5.                                            *)

Scenario2TwoPages ==
    Scenario2 =>
        /\ groupRowsWithSubtotals(Model.rows) = Scenario2Groups
        /\ RowsOf(DataPages) =
              <<SubSeq(Scenario2Rows, 1, 3), SubSeq(Scenario2Rows, 4, 8)>>

Scenario2Witness ==
    /\ Scenario2
    /\ called = "paginateAggregateTable"
    /\ ~HasGrandTotal
    /\ Len(Pages) = 2

----------------------------------------------------------------------------
(* C14 Ungrouped page shape: n >= 1 rows without subtotal rows (for        *)
(* paginateDataTable any rows) and a budget of m rows give exactly         *)
(* ceil(n/m) data pages, all of m rows but the last, which has 1..m rows;  *)
(* 100 rows on Letter portrait with one header row give [28, 28, 28, 16].  *)

UngroupedInput ==
    \/ called = "paginateDataTable"
    \/ WithTotals /\ ~someSubtotal(Model.rows)

CeilDiv(n, m) == (n + m - 1) \div m

UngroupedPageShape ==
    (Returned /\ HasModel /\ Model.rows # <<>> /\ UngroupedInput) =>
        LET n == Len(Model.rows)
            counts == RowCounts(DataPages)
        IN  /\ Len(counts) = CeilDiv(n, MaxDataRows)
            /\ \A p \in 1..(Len(counts) - 1) : counts[p] = MaxDataRows
            /\ counts[Len(counts)] >= 1
            /\ counts[Len(counts)] <= MaxDataRows
            /\ (/\ Model.rows = Scenario1Rows
                /\ Default(options.pageSize, "Letter") = "Letter"
                /\ Default(options.orientation, "portrait") = "portrait"
                /\ numHeaderRowsOf(Model.headers) = 1)
               => counts = <<28, 28, 28, 16>>

\* scenario 1 itself, in the data-table paginator
UngroupedPageShapeWitness ==
    /\ Returned /\ HasModel
    /\ called = "paginateDataTable"
    /\ Model.rows = Scenario1Rows
    /\ options.pageSize = Some("Letter")
    /\ options.orientation = Some("portrait")
    /\ Model.headers = Some(MakeHeaders(1))
    /\ RowCounts(Pages) = <<28, 28, 28, 16>>

----------------------------------------------------------------------------
(* C15 Oversized-group policy: in grouped mode a group of more than        *)
(* maxDataRows rows is placed whole on a page that holds no other group;   *)
(* a page of more than maxDataRows rows consists of exactly one group.     *)

\* the rows of the page are one whole group
OneGroupPage(page) ==
    /\ page.rows # <<>>
    /\ Len(page.rows) = GroupSizeAt(page.rows[1].index + 1)
    /\ \A k \in 1..Len(page.rows) :
          SameGroup(page.rows[1].index + 1, page.rows[k].index + 1)

OversizedGroupAlone ==
    (Returned /\ HasModel /\ GroupedMode) =>
        /\ \A i \in 1..Len(Model.rows) :
              GroupSizeAt(i) > MaxDataRows =>
                  \E p \in 1..Len(Pages) :
                      PagesOfRow(i) = {p} /\ OneGroupPage(Pages[p])
        /\ \A p \in 1..Len(Pages) :
              Len(Pages[p].rows) > MaxDataRows => OneGroupPage(Pages[p])

\* an oversized group between a page before it and a page after it
OversizedGroupAloneWitness ==
    /\ Returned /\ HasModel /\ GroupedMode
    /\ \E p \in 2..(Len(Pages) - 1) :
          /\ Len(Pages[p].rows) > MaxDataRows
          /\ HasRows(Pages[p - 1])
          /\ HasRows(Pages[p + 1])

----------------------------------------------------------------------------
(* Specification of the subtotal grouper calls *)

GrouperInit ==
    /\ data \in {Some(d) : d \in TableModels}
    /\ options = NoOptions
    /\ called = "none"
    /\ result = NotCalled
    /\ args = NoArgs
    /\ dataRows = NoDataRows
    /\ ServicesIdle

GroupRowsWithSubtotals ==
    /\ called = "none"
    /\ called' = "groupRowsWithSubtotals"
    /\ result' = Return(groupRowsWithSubtotals(data[1].rows))
    /\ UNCHANGED <<data, options, args, dataRows>>
    /\ UNCHANGED serviceVars

GrouperNext == GroupRowsWithSubtotals

GrouperSpec == GrouperInit /\ [][GrouperNext]_vars

----------------------------------------------------------------------------
(* C16 Grouper postcondition: for a non-empty row sequence the groups are   *)
(* non-empty, their concatenation is the input, a subtotal row is the last *)
(* row of its group, every group ends in a subtotal row or the final row,  *)
(* and there are as many groups as subtotal rows, plus one if the final    *)
(* row is not a subtotal.                                                  *)

Groups == result.value

RECURSIVE Flatten(_, _)
Flatten(groups, g) ==
    IF g > Len(groups) THEN <<>> ELSE groups[g] \o Flatten(groups, g + 1)

SubtotalCount(rows) == Cardinality({i \in 1..Len(rows) : rows[i].type = "subtotal"})

GrouperPostcondition ==
    (called = "groupRowsWithSubtotals" /\ Model.rows # <<>>) =>
        LET rows == Model.rows
            final == rows[Len(rows)]
        IN  /\ \A g \in 1..Len(Groups) : Len(Groups[g]) > 0
            /\ Flatten(Groups, 1) = rows
            /\ \A g \in 1..Len(Groups) : \A k \in 1..Len(Groups[g]) :
                  Groups[g][k].type = "subtotal" => k = Len(Groups[g])
            /\ \A g \in 1..Len(Groups) :
                  LET last == Groups[g][Len(Groups[g])]
                  IN  last.type = "subtotal" \/ last = final
            /\ Len(Groups) = SubtotalCount(rows)
                               + (IF final.type = "subtotal" THEN 0 ELSE 1)

\* consecutive subtotal rows and a trailing group without subtotal
GrouperPostconditionWitness ==
    /\ called = "groupRowsWithSubtotals"
    /\ Len(Model.rows) = MaxRows
    /\ Len(Groups) >= 3
    /\ Model.rows[Len(Model.rows)].type = "data"
    /\ \E g \in 1..Len(Groups) : Len(Groups[g]) = 1 /\ Groups[g][1].type = "subtotal"

----------------------------------------------------------------------------
(* C17 Subtotals stay with their preceding data: in grouped mode every     *)
(* subtotal row that has a data row before it lies on the page of the      *)
(* nearest preceding data row, consecutive subtotal rows included.         *)

DataRowsBefore(i) == {j \in 1..(i - 1) : Model.rows[j].type = "data"}

NearestDataBefore(i) ==
    CHOOSE j \in DataRowsBefore(i) : \A k \in DataRowsBefore(i) : k <= j

SubtotalWithPrecedingData ==
    (Returned /\ HasModel /\ GroupedMode) =>
        \A i \in 1..Len(Model.rows) :
            (Model.rows[i].type = "subtotal" /\ DataRowsBefore(i) # {}) =>
                PagesOfRow(i) = PagesOfRow(NearestDataBefore(i))

----------------------------------------------------------------------------
(* C18 Empty outputs without failure: each paginator returns the empty     *)
(* page list, without raising an error, when the model is null or absent   *)
(* and when it has zero data rows and no grand total, whatever its headers.*)

NothingToPaginate ==
    \/ data = None
    \/ Model.rows = <<>> /\ Model.grandTotal = "null"

EmptyOutput ==
    (called # "none" /\ NothingToPaginate) => result = Return(<<>>)

----------------------------------------------------------------------------
(* C19 Implicit header row: with headers absent or empty each paginator    *)
(* computes the budget as for one header row, so maxDataRows and the page  *)
(* partition are those of the same model with headers of length 1.         *)

PaginateBy(c, d, opts) ==
    CASE c = "paginateTableData" -> paginateTableData(d, opts)
      [] c = "paginateAggregateTable" -> paginateAggregateTable(d, opts)
      [] c = "paginateDataTable" -> paginateDataTable(d, opts)

GrandTotalsOf(pages) == [p \in 1..Len(pages) |-> pages[p].grandTotal]

BudgetFor(headerRowCount) ==
    getDataRowsPerPage(ModuleOf(called), Default(options.pageSize, "Letter"),
                       Default(options.orientation, "portrait"), headerRowCount)

NoHeaderRows == Model.headers = None \/ Model.headers = Some(<<>>)

ImplicitHeaderRow ==
    (called # "none" /\ HasModel /\ NoHeaderRows) =>
        LET withOne == PaginateBy(called,
                                  Some([Model EXCEPT !.headers = Some(MakeHeaders(1))]),
                                  options)
        IN  /\ BudgetFor(numHeaderRowsOf(Model.headers)) = BudgetFor(1)
            /\ result.completion = withOne.completion
            /\ result.completion = "return" =>
                  /\ RowsOf(Pages) = RowsOf(withOne.value)
                  /\ GrandTotalsOf(Pages) = GrandTotalsOf(withOne.value)

\* an empty headers array, a page filled to the budget and the grand total
\* on a page of its own
ImplicitHeaderRowWitness ==
    /\ Returned /\ HasModel /\ WithTotals /\ HasGrandTotal
    /\ Model.headers = Some(<<>>)
    /\ Len(Pages) = 2
    /\ Len(Pages[1].rows) = MaxDataRows
    /\ OnlyGrandTotal(Pages[2])

----------------------------------------------------------------------------
(* C21  The table model is immutable for the request: a paginator call      *)
(* leaves data unchanged (rows, headers and grand total are after the call  *)
(* what they were before it), and the pages only refer to the model: every  *)
(* page's headers are the model's headers, every row on a page is a row of  *)
(* the model and a grand total on a page is the model's grand total.        *)

RefersTo(pages, model) ==
    \A p \in 1..Len(pages) :
        /\ pages[p].headers = model.headers
        /\ \A k \in 1..Len(pages[p].rows) :
              \E i \in 1..Len(model.rows) : pages[p].rows[k] = model.rows[i]
        /\ pages[p].grandTotal \in {None, Some("null"), Some(model.grandTotal)}

ModelImmutable ==
    [][called' # called =>
         /\ data' = data
         /\ (result'.completion = "return" /\ data # None) =>
                RefersTo(result'.value, data[1])]_vars

\* a call has returned several pages of rows and a grand total, and the
\* model still holds its rows
ModelImmutableWitness ==
    /\ Returned /\ HasModel /\ HasGrandTotal
    /\ Len(Pages) > 1
    /\ Len(Model.rows) > 1
    /\ \E p \in 1..Len(Pages) : Pages[p].grandTotal = Some(Model.grandTotal)

----------------------------------------------------------------------------
(* C25  Greedy packing in grouped mode: a page is closed before a group    *)
(* exactly when it has rows and its row count plus the group's size        *)
(* exceeds maxDataRows.  Hence, of two consecutive data pages, the rows of *)
(* the first plus the first group of the second exceed maxDataRows; a page *)
(* holding more than one group holds at most maxDataRows rows; and no data *)
(* page is empty (only a page made for the grand total has no rows).       *)

\* size of the first group on a page: up to and including its first subtotal
FirstGroupSize(page) ==
    LET ends == {k \in 1..Len(page.rows) : page.rows[k].type = "subtotal"}
    IN  IF ends = {} THEN Len(page.rows)
        ELSE CHOOSE k \in ends : \A j \in ends : k <= j

GreedyPacking ==
    (Returned /\ HasModel /\ GroupedMode) =>
        /\ \A p \in 1..(Len(DataPages) - 1) :
              Len(DataPages[p].rows) + FirstGroupSize(DataPages[p + 1]) > MaxDataRows
        /\ \A p \in 1..Len(Pages) :
              Len(Pages[p].rows) > FirstGroupSize(Pages[p]) =>
                  Len(Pages[p].rows) <= MaxDataRows
        /\ \A p \in 1..Len(Pages) :
              Pages[p].rows = <<>> => (p = Len(Pages) /\ p > 1 /\ OnlyGrandTotal(Pages[p]))

\* two data pages, the first holding two groups and room left that the
\* first group of the second page did not fit into
GreedyPackingWitness ==
    /\ Returned /\ HasModel /\ GroupedMode
    /\ Len(DataPages) >= 2
    /\ Len(DataPages[1].rows) > FirstGroupSize(DataPages[1])
    /\ Len(DataPages[1].rows) < MaxDataRows
    /\ FirstGroupSize(DataPages[2]) <= MaxDataRows

----------------------------------------------------------------------------
(* Content stability: waitForDOMStability                                  *)
(*                                                                         *)
(* Time is the value of Date.now().  A timer fires when the clock reaches  *)
(* its deadline: the clock does not pass a deadline that is due.  DOM      *)
(* mutations happen at any time, any number of times.                      *)

\* the clock stops here
MaxTime == 400

\* largest step of the clock
TimeStep == 50

\* setTimeout(checkStability, 100)
PollInterval == 100

QuietPeriodInputs == {0, 50, 100, 250}

MaxWaitInputs == {0, 150, 200}

Min(a, b) == IF a <= b THEN a ELSE b

\* checkStability that never gives up on the quiet period
checkStabilityNoMaxWait(d, t) ==
    IF t - d.lastMutationTime >= d.quietMs
      THEN [d EXCEPT !.state = "resolved", !.observing = FALSE,
                     !.observerActive = FALSE, !.isStable = Some(TRUE),
                     !.timeoutId = None, !.elapsed = Some(t - d.startTime)]
    ELSE [d EXCEPT !.timeoutId = Some(t + PollInterval)]

\* const checkStability = () => { ... }, run at time t
checkStability(d, t) ==
    LET timeSinceLastMutation == t - d.lastMutationTime
        totalElapsed == t - d.startTime
    IN  IF timeSinceLastMutation >= d.quietMs
          THEN [d EXCEPT !.state = "resolved", !.observing = FALSE,
                         !.observerActive = FALSE, !.isStable = Some(TRUE),
                         !.timeoutId = None, !.elapsed = Some(t - d.startTime)]
        ELSE IF totalElapsed >= d.maxMs
          THEN [d EXCEPT !.state = "resolved", !.observing = FALSE,
                         !.observerActive = FALSE, !.isStable = Some(FALSE),
                         !.timeoutId = None, !.elapsed = Some(t - d.startTime)]
        ELSE [d EXCEPT !.timeoutId = Some(t + PollInterval)]

\* the promise's executor up to the first checkStability()
startStability(quietMs, maxMs, t) ==
    checkStability([state |-> "polling", quietMs |-> quietMs, maxMs |-> maxMs,
                    startTime |-> t, lastMutationTime |-> t,
                    observerActive |-> TRUE, observing |-> TRUE,
                    timeoutId |-> None, isStable |-> None, elapsed |-> None], t)

\* new MutationObserver(() => { if (observerActive) lastMutationTime = Date.now() })
onMutation(d, t) == IF d.observerActive THEN [d EXCEPT !.lastMutationTime = t] ELSE d

\* the deadlines of the timers that are set
DomDeadlines == IF dom.state = "polling" /\ dom.timeoutId # None THEN {dom.timeoutId[1]} ELSE {}

SwDeadlines == IF sw.state # "idle" /\ ~sw.timerFired THEN {sw.timer[1]} ELSE {}

Deadlines == DomDeadlines \cup SwDeadlines

MinOf(S) == CHOOSE y \in S : \A z \in S : y <= z

NextTime ==
    LET t == Min(now + TimeStep, MaxTime)
    IN  IF Deadlines = {} THEN t ELSE Min(t, MinOf(Deadlines))

\* the checks smartWait starts: the fourth only if waitForFramework
CheckNames(waitForFramework) ==
    {"dom", "network", "content"} \cup (IF waitForFramework THEN {"framework"} ELSE {})

\* the checks that end with the promise of a page.evaluate call, which rejects
\* when the page's execution context is destroyed
EvaluatingChecks == {"content", "framework"}

\* the promise of waitForDOMStability, from the state of its page.evaluate
domStatus(d) ==
    CASE d.state = "resolved" -> "fulfilled"
      [] d.state = "rejected" -> "rejected"
      [] OTHER -> "pending"

\* await Promise.race([Promise.all(checks), timer]); return totalTime:
\* smartWait resumes as soon as the race is settled
resume(s, t) ==
    IF s.state # "waiting" THEN s
    ELSE IF \E c \in DOMAIN s.checks : s.checks[c] = "rejected"
      THEN [s EXCEPT !.state = "threw"]
    ELSE IF (\A c \in DOMAIN s.checks : s.checks[c] = "fulfilled") \/ s.timerFired
      THEN [s EXCEPT !.state = "returned", !.totalTime = Some(t - s.startTime)]
    ELSE s

\* smartWait after the promise of waitForDOMStability has changed
afterDom(s, d, t) ==
    IF s.state = "idle" THEN s
    ELSE resume([s EXCEPT !.checks["dom"] = domStatus(d)], t)

\* smartWait up to its await
startSmartWait(maxWait, waitForFramework, d, t) ==
    resume([state |-> "waiting", maxWait |-> maxWait, startTime |-> t,
            checks |-> [c \in CheckNames(waitForFramework) |->
                          IF c = "dom" THEN domStatus(d) ELSE "pending"],
            timer |-> Some(t + maxWait), timerFired |-> FALSE,
            totalTime |-> None], t)

StabilityInit ==
    /\ data = None
    /\ options = NoOptions
    /\ called = "none"
    /\ result = NotCalled
    /\ args = NoArgs
    /\ dataRows = NoDataRows
    /\ now \in {0, TimeStep}
    /\ dom = Idle
    /\ sw = Idle
    /\ gen = Idle
    /\ mail = Idle
    /\ sched = Idle

WaitForDOMStability ==
    /\ dom.state = "idle"
    /\ sw.state = "idle"
    /\ \E quietPeriod \in QuietPeriodInputs, maxWait \in MaxWaitInputs :
          dom' = startStability(quietPeriod, maxWait, now)
    /\ UNCHANGED <<now, sw, gen, mail, sched>>
    /\ UNCHANGED paginatorVars

DomMutation ==
    /\ dom.state = "polling"
    /\ dom.observing
    /\ dom' = onMutation(dom, now)
    /\ UNCHANGED <<now, sw, gen, mail, sched>>
    /\ UNCHANGED paginatorVars

CheckStabilityTimer ==
    /\ dom.state = "polling"
    /\ dom.timeoutId = Some(now)
    /\ dom' = checkStability(dom, now)
    /\ sw' = afterDom(sw, checkStability(dom, now), now)
    /\ UNCHANGED <<now, gen, mail, sched>>
    /\ UNCHANGED paginatorVars

StabilityTick ==
    /\ dom.state # "idle"
    /\ now < MaxTime
    /\ \A t \in Deadlines : now < t
    /\ now' = NextTime
    /\ UNCHANGED <<dom, sw, gen, mail, sched>>
    /\ UNCHANGED paginatorVars

StabilityNext ==
    WaitForDOMStability \/ DomMutation \/ CheckStabilityTimer \/ StabilityTick

StabilitySpec ==
    /\ StabilityInit
    /\ [][StabilityNext]_vars
    /\ WF_vars(WaitForDOMStability)
    /\ WF_vars(CheckStabilityTimer)
    /\ WF_vars(StabilityTick)

----------------------------------------------------------------------------
(* C30  waitForDOMStability always terminates: whatever the DOM mutations, *)
(* it resolves true at a poll where no mutation was seen for quietPeriod,  *)
(* or false at a poll where maxWait has elapsed without such a quiet       *)
(* period; it is resolved no later than maxWait plus one poll interval     *)
(* after its start, and the observer is disconnected when it resolves.     *)

DomResolved == dom.state = "resolved"

DomPolling == dom.state = "polling"

\* time between the last mutation seen and the moment of resolution
QuietAtResolution == dom.startTime + dom.elapsed[1] - dom.lastMutationTime

DomStabilityOutcome ==
    /\ DomPolling => /\ now - dom.startTime < dom.maxMs + PollInterval
                     /\ dom.observing
    /\ DomResolved =>
          /\ dom.isStable \in {Some(TRUE), Some(FALSE)}
          /\ dom.elapsed[1] <= dom.maxMs + PollInterval
          /\ ~dom.observing
          /\ dom.isStable = Some(TRUE) => QuietAtResolution >= dom.quietMs
          /\ dom.isStable = Some(FALSE) =>
                /\ dom.elapsed[1] >= dom.maxMs
                /\ QuietAtResolution < dom.quietMs

----------------------------------------------------------------------------
(* Content stability: smartWait                                            *)
(*                                                                         *)
(* The DOM check is waitForDOMStability as above.  The other checks are    *)
(* promises that settle when the page lets them: the network check only    *)
(* fulfils; the content and the framework check end with a page.evaluate   *)
(* call and reject if that call rejects, as the DOM check does.            *)

\* options.maxWait of smartWait: setupPage passes 7000 or 10000
SmartWaitInputs == MaxWaitInputs \ {0}

SmartWait ==
    /\ sw.state = "idle"
    /\ dom.state = "idle"
    /\ \E maxWait \in SmartWaitInputs, domQuietPeriod \in QuietPeriodInputs,
          waitForFramework \in BOOLEAN :
          LET d == startStability(domQuietPeriod, maxWait, now)
          IN  /\ dom' = d
              /\ sw' = startSmartWait(maxWait, waitForFramework, d, now)
    /\ UNCHANGED <<now, gen, mail, sched>>
    /\ UNCHANGED paginatorVars

\* a check other than the DOM check fulfils
CheckFulfils ==
    /\ sw.state # "idle"
    /\ \E c \in DOMAIN sw.checks \ {"dom"} :
          /\ sw.checks[c] = "pending"
          /\ sw' = resume([sw EXCEPT !.checks[c] = "fulfilled"], now)
    /\ UNCHANGED <<now, dom, gen, mail, sched>>
    /\ UNCHANGED paginatorVars

\* the page.evaluate call of the content or the framework check rejects
CheckRejects ==
    /\ sw.state # "idle"
    /\ \E c \in DOMAIN sw.checks \cap EvaluatingChecks :
          /\ sw.checks[c] = "pending"
          /\ sw' = resume([sw EXCEPT !.checks[c] = "rejected"], now)
    /\ UNCHANGED <<now, dom, gen, mail, sched>>
    /\ UNCHANGED paginatorVars

\* the page.evaluate call of waitForDOMStability rejects
DomEvaluateRejects ==
    /\ sw.state # "idle"
    /\ dom.state = "polling"
    /\ dom' = [dom EXCEPT !.state = "rejected"]
    /\ sw' = afterDom(sw, [dom EXCEPT !.state = "rejected"], now)
    /\ UNCHANGED <<now, gen, mail, sched>>
    /\ UNCHANGED paginatorVars

\* new Promise(resolve => setTimeout(resolve, maxWait)) fires
MaxWaitTimer ==
    /\ sw.state # "idle"
    /\ ~sw.timerFired
    /\ sw.timer = Some(now)
    /\ sw' = resume([sw EXCEPT !.timerFired = TRUE], now)
    /\ UNCHANGED <<now, dom, gen, mail, sched>>
    /\ UNCHANGED paginatorVars

SmartWaitNext ==
    \/ SmartWait
    \/ DomMutation
    \/ CheckStabilityTimer
    \/ DomEvaluateRejects
    \/ CheckFulfils
    \/ CheckRejects
    \/ MaxWaitTimer
    \/ StabilityTick

SmartWaitSpec == StabilityInit /\ [][SmartWaitNext]_vars

----------------------------------------------------------------------------
(* C22  smartWait races the checks it starts against one maxWait timer: it *)
(* returns as soon as all started checks have settled or the timer has     *)
(* fired, whichever is first, hence no later than maxWait after its start, *)
(* whatever the checks do.  So smartWait never throws; while it waits, the *)
(* timer has not fired and some check is unsettled; and the time it        *)
(* returns is at most maxWait.                                             *)

SmartWaitRace ==
    /\ sw.state # "threw"
    /\ sw.state = "waiting" =>
          /\ now - sw.startTime <= sw.maxWait
          /\ ~sw.timerFired
          /\ \E c \in DOMAIN sw.checks : sw.checks[c] = "pending"
    /\ sw.state = "returned" => sw.totalTime[1] <= sw.maxWait

----------------------------------------------------------------------------
(* Generation service: handler, generatePdf, generateAllSheetsPdf and      *)
(* generateCsv                                                             *)
(*                                                                         *)
(* A generator is a sequence of steps, each an awaited call or a check     *)
(* that may throw.  What the browser, the page, the schedule API and S3    *)
(* answer is an input of the run (env): the step that fails, if any, the   *)
(* kind of table on the page and the number of sheets of the dashboard.    *)
(* The effects of a run on the browser, the APIs and S3 are kept as a      *)
(* sequence of events, in the order they happen.                           *)

\* most sheets of a dashboard
MaxSheets == 2

InvalidUrlMessage == "Missing or invalid 'url' parameter"

\* new URL(urlString) succeeds
Parseable(url) == url \in {"ftp://files.example.com/report", "https://app.example.com/view"}

\* url.protocol === 'http:' || url.protocol === 'https:'
HttpProtocol(url) == url = "https://app.example.com/view"

\* isValidUrl that accepts every string
isValidUrlAny(url) == TRUE

\* isValidUrl of pdf-generator.js
isValidUrl(url) == Parseable(url)

\* isValidUrl of csv-extractor.js
isValidUrlCsv(url) == Parseable(url) /\ HttpProtocol(url)

\* a string or an optional value is truthy
Truthy(x) == x # None /\ x # Some("")

\* shouldGenerateAllSheets(options.reportParams)
shouldGenerateAllSheets(opts) == opts.sheetSelection = Some("all")

Step(name, sheet) == [name |-> name, sheet |-> sheet]

\* the step fails under env: a step of the sheet loop fails at sheet env.failSheet
Fails(step, env) ==
    /\ step.name = env.failAt
    /\ step.sheet \in {0, env.failSheet}

\* the steps run: all of them, or those before the first that fails
Executed(plan, env) ==
    LET failing == {i \in 1..Len(plan) : Fails(plan[i], env)}
    IN  IF failing = {} THEN plan
        ELSE SubSeq(plan, 1, MinOf(failing) - 1)

Threw(plan, env) == \E i \in 1..Len(plan) : Fails(plan[i], env)

\* the mode generatePdf selects from options.tableMode and the table detected
modeOf(opts, env) ==
    IF opts.tableMode = Some(TRUE)
      THEN (IF env.tableType \in {"pivot", "data", "aggregate"} THEN env.tableType
            ELSE "table")
    ELSE "dashboard"

\* mode.preparePage(page, prepareOpts) of the pivot, data and aggregate mode
\* (the generic table mode delegates to them): paginate with
\* options.pageSize || 'Letter' and options.orientation || 'portrait'
pageEvents(prepareOpts, opts, env) ==
    IF opts.tableMode = Some(TRUE) /\ env.tableType \in {"pivot", "data", "aggregate"}
      THEN <<[e |-> "paginate", table |-> env.tableType,
              pageSize |-> IF Truthy(prepareOpts.pageSize) THEN prepareOpts.pageSize[1]
                           ELSE "Letter",
              orientation |-> IF Truthy(prepareOpts.orientation)
                                THEN prepareOpts.orientation[1]
                              ELSE "portrait"]>>
    ELSE <<>>

\* mode.getPdfOptions(dimensions, options.pageSize, options) and page.pdf(pdfOptions):
\* format: pageSize (default 'A4'), landscape: options.orientation === 'landscape'
pdfEvent(opts) ==
    [e |-> "pdf", format |-> Default(opts.pageSize, "A4"),
     landscape |-> (opts.orientation = Some("landscape"))]

\* the options preparePage gets when called without options
NoPrepareOptions == [pageSize |-> None, orientation |-> None]

\* what a step that has run does to the browser, the APIs and the page
EventsOf(step, opts, env) ==
    CASE step.name = "launchBrowser" -> <<[e |-> "launch"]>>
      [] step.name = "setupPage" -> <<[e |-> "goto"]>>
      [] step.name = "getScheduleDetails" -> <<[e |-> "fetchSchedule"]>>
      [] step.name = "getDashboardData" -> <<[e |-> "fetchDashboard"]>>
      [] step.name = "preparePage" ->
            pageEvents(IF step.sheet = 0 THEN opts ELSE NoPrepareOptions, opts, env)
      [] step.name = "pdf" -> <<pdfEvent(opts)>>
      [] step.name = "encryptPdfBuffer" -> <<[e |-> "encrypt"]>>
      [] OTHER -> <<>>

RECURSIVE EventsOfAll(_, _, _, _, _)
EventsOfAll(plan, lo, hi, opts, env) ==
    IF lo > hi THEN <<>>
    ELSE IF lo = hi THEN EventsOf(plan[lo], opts, env)
    ELSE LET mid == (lo + hi) \div 2
         IN  EventsOfAll(plan, lo, mid, opts, env) \o EventsOfAll(plan, mid + 1, hi, opts, env)

\* if (options.password) pdfBuffer = await encryptPdfBuffer(pdfBuffer, options.password)
encryptSteps(opts) ==
    IF Truthy(opts.password) THEN <<Step("encryptPdfBuffer", 0)>> ELSE <<>>

\* generatePdf after the all-sheets test: steps 1 to 7
PdfPlan(opts) ==
    <<Step("launchBrowser", 0), Step("newPage", 0), Step("setupPage", 0),
      Step("waitForDashboardReady", 0), Step("loadAllContent", 0),
      Step("evaluate", 0), Step("preparePage", 0), Step("pageContent", 0),
      Step("pdf", 0), Step("emptyBuffer", 0)>> \o encryptSteps(opts)

\* the body of the sheet loop of generateAllSheetsPdf for sheet i
SheetPlan(i) ==
    <<Step("setupPage", i), Step("waitForDashboardReady", i), Step("loadAllContent", i),
      Step("preparePage", i), Step("pdf", i), Step("emptyBuffer", i)>>

RECURSIVE SheetPlans(_, _)
SheetPlans(i, n) == IF i > n THEN <<>> ELSE SheetPlan(i) \o SheetPlans(i + 1, n)

\* generateAllSheetsPdf: steps 1 to 7
AllSheetsPlan(opts, env) ==
    <<Step("getScheduleDetails", 0), Step("noToken", 0), Step("noDashboardId", 0),
      Step("getDashboardData", 0), Step("noSheets", 0),
      Step("launchBrowser", 0), Step("newPage", 0), Step("parseUrl", 0)>>
    \o SheetPlans(1, env.sheets)
    \o <<Step("mergePDFsWithMetadata", 0)>> \o encryptSteps(opts)

\* generateCsv: steps 1 to 7
CsvPlan ==
    <<Step("launchBrowser", 0), Step("newPage", 0), Step("setupPage", 0),
      Step("waitForDashboardReady", 0), Step("waitForSelector", 0),
      Step("evaluate", 0), Step("noTable", 0), Step("extractTableData", 0),
      Step("convertToCSV", 0)>>

Launched(events) == \E i \in 1..Len(events) : events[i].e = "launch"

\* finally without the close
releaseNever(events) == events

\* finally { await closeBrowser(browser) }: closeBrowser closes a browser that is set
release(events) == IF Launched(events) THEN Append(events, [e |-> "close"]) ELSE events

\* the outcome of a generator run: the try block ran plan under env
Outcome(plan, opts, env, kind) ==
    LET done == Executed(plan, env)
        events == release(EventsOfAll(done, 1, Len(done), opts, env))
    IN  IF Threw(plan, env)
          THEN [completion |-> "throw", message |-> <<env.failAt>>, events |-> events]
        ELSE [completion |-> "return", events |-> events,
              buffer |-> [kind |-> kind,
                          encrypted |-> \E i \in 1..Len(events) : events[i].e = "encrypt"]]

InvalidUrl == [completion |-> "throw", message |-> <<InvalidUrlMessage>>, events |-> <<>>]

generateAllSheetsPdf(url, opts, env) == Outcome(AllSheetsPlan(opts, env), opts, env, "pdf")

generatePdf(url, opts, env) ==
    IF ~Truthy(url) \/ ~isValidUrl(url[1]) THEN InvalidUrl
    ELSE IF shouldGenerateAllSheets(opts) /\ Truthy(opts.scheduleId)
      THEN generateAllSheetsPdf(url, opts, env)
    ELSE Outcome(PdfPlan(opts), opts, env, "pdf")

\* catch (error) { throw new Error(`Failed to generate CSV: ${error.message}`) }
generateCsv(url, opts, env) ==
    LET r == IF ~Truthy(url) \/ ~isValidUrlCsv(url[1]) THEN InvalidUrl
             ELSE Outcome(CsvPlan, opts, env, "csv")
    IN  IF r.completion = "throw"
          THEN [r EXCEPT !.message = <<"Failed to generate CSV: ">> \o @]
        ELSE r

\* error.message?.includes('invalid'), part by part of the message
IncludesInvalid(message) == \E i \in 1..Len(message) : message[i] = InvalidUrlMessage

\* const options = { ... } of the handler, from the query string
handlerOptions(query) ==
    [tableMode |-> Some(query.tableMode = Some("true")),
     pageSize |-> Some(IF Truthy(query.pageSize) THEN query.pageSize[1] ELSE "A4"),
     orientation |-> Some(IF Truthy(query.orientation) THEN query.orientation[1]
                          ELSE "portrait"),
     password |-> query.password,
     scheduleId |-> query.scheduleId,
     sheetSelection |-> query.reportParams]

\* the handler of the generation service
handler(query, env) ==
    LET format == IF Truthy(query.format) THEN query.format[1] ELSE "pdf"
        opts == handlerOptions(query)
        r == IF format = "csv" THEN generateCsv(query.url, opts, env)
             ELSE generatePdf(query.url, opts, env)
    IN  IF r.completion = "throw"
          THEN [statusCode |-> IF IncludesInvalid(r.message) THEN 400 ELSE 500,
                message |-> r.message, events |-> r.events]
        ELSE IF env.failAt \in {"bucketName", "putObject"}
          THEN [statusCode |-> 500, message |-> <<env.failAt>>, events |-> r.events]
        ELSE [statusCode |-> 200, message |-> <<>>,
              events |-> Append(r.events,
                                [e |-> "upload", body |-> r.buffer,
                                 prefix |-> IF Truthy(query.scheduleId) \/ Truthy(query.email)
                                              THEN "emails" ELSE "pdfs",
                                 scheduled |-> Truthy(query.scheduleId)])]

UrlInputs ==
    {None, Some("not a url"), Some("ftp://files.example.com/report"),
     Some("https://app.example.com/view")}

QueryInputs ==
    [url : UrlInputs,
     email : {None},
     scheduleId : {None, Some("schedule-1")},
     format : {None, Some("csv")},
     password : {None, Some("secret")},
     tableMode : {None, Some("true")},
     pageSize : {None, Some("Letter")},
     orientation : {None, Some("landscape")},
     reportParams : {None, Some("all")}]

GeneratorOptionInputs ==
    [tableMode : {None, Some(TRUE)},
     pageSize : {None, Some("Letter")},
     orientation : {None, Some("landscape")},
     password : {None, Some("secret")},
     scheduleId : {None, Some("schedule-1")},
     sheetSelection : {None, Some("all")}]

FailPoints ==
    {"none", "launchBrowser", "newPage", "setupPage", "waitForDashboardReady",
     "loadAllContent", "evaluate", "preparePage", "pageContent", "pdf", "emptyBuffer",
     "encryptPdfBuffer", "getScheduleDetails", "noToken", "noDashboardId",
     "getDashboardData", "noSheets", "parseUrl", "mergePDFsWithMetadata",
     "waitForSelector", "noTable", "extractTableData", "convertToCSV",
     "bucketName", "putObject"}

\* the answers of the environment: the table kind varies on the runs where
\* no step fails, the failing step on pages with a data table
EnvInputs ==
    {env \in [failAt : FailPoints, failSheet : 1..MaxSheets,
              tableType : {"pivot", "data", "aggregate", "none"}, sheets : 1..MaxSheets] :
        /\ env.failSheet <= env.sheets
        /\ env.failAt = "none" \/ env.tableType = "data"
        /\ env.failAt = "none" => env.failSheet = 1}

\* requests to the handler
HandlerRequests ==
    {[state |-> "request", entry |-> "handler", url |-> q.url, query |-> Some(q),
      options |-> handlerOptions(q), env |-> env] : q \in QueryInputs, env \in EnvInputs}

\* calls of the generators by other callers (local runs, tests)
GeneratorRequests ==
    {[state |-> "request", entry |-> entry, url |-> url, query |-> None,
      options |-> opts, env |-> env] :
        entry \in {"generatePdf", "generateCsv"}, url \in UrlInputs,
        opts \in GeneratorOptionInputs, env \in EnvInputs}

GenInit ==
    /\ data = None
    /\ options = NoOptions
    /\ called = "none"
    /\ result = NotCalled
    /\ args = NoArgs
    /\ dataRows = NoDataRows
    /\ now = 0
    /\ dom = Idle
    /\ sw = Idle
    /\ (gen \in HandlerRequests \/ gen \in GeneratorRequests)
    /\ mail = Idle
    /\ sched = Idle

\* the request with the outcome of its run
Done(req, completion, message, events, statusCode) ==
    [state |-> "done", entry |-> req.entry, url |-> req.url, query |-> req.query,
     options |-> req.options, env |-> req.env, completion |-> completion,
     message |-> message, events |-> events, statusCode |-> statusCode]

Handler ==
    /\ gen.state = "request"
    /\ gen.entry = "handler"
    /\ LET r == handler(gen.query[1], gen.env)
       IN  gen' = Done(gen, "return", r.message, r.events, Some(r.statusCode))
    /\ UNCHANGED <<now, dom, sw, mail, sched>>
    /\ UNCHANGED paginatorVars

GeneratePdf ==
    /\ gen.state = "request"
    /\ gen.entry = "generatePdf"
    /\ LET r == generatePdf(gen.url, gen.options, gen.env)
       IN  gen' = Done(gen, r.completion,
                       IF r.completion = "throw" THEN r.message ELSE <<>>,
                       r.events, None)
    /\ UNCHANGED <<now, dom, sw, mail, sched>>
    /\ UNCHANGED paginatorVars

GenerateCsv ==
    /\ gen.state = "request"
    /\ gen.entry = "generateCsv"
    /\ LET r == generateCsv(gen.url, gen.options, gen.env)
       IN  gen' = Done(gen, r.completion,
                       IF r.completion = "throw" THEN r.message ELSE <<>>,
                       r.events, None)
    /\ UNCHANGED <<now, dom, sw, mail, sched>>
    /\ UNCHANGED paginatorVars

GenNext == Handler \/ GeneratePdf \/ GenerateCsv

GenSpec == GenInit /\ [][GenNext]_vars

\* the run of the request is over
GenDone == gen.state = "done"

\* the positions of the events of kind e
EventsAt(events, e) == {i \in 1..Len(events) : events[i].e = e}

----------------------------------------------------------------------------
(* C23  URLs are validated before processing: a run of generatePdf or      *)
(* generateCsv with a missing or unparseable url fails with the "Missing   *)
(* or invalid 'url' parameter" error (generateCsv rethrows it behind its   *)
(* "Failed to generate CSV: " prefix) and has launched no browser,         *)
(* navigated no page and fetched no schedule or dashboard data; the        *)
(* handler then answers 400 and uploads nothing.                           *)

UrlRejected == ~Truthy(gen.url) \/ ~Parseable(gen.url[1])

UrlValidatedFirst ==
    GenDone /\ UrlRejected =>
        /\ IncludesInvalid(gen.message)
        /\ gen.events = <<>>
        /\ gen.entry = "handler" => gen.statusCode = Some(400)
        /\ gen.entry # "handler" => gen.completion = "throw"

UrlValidatedFirstWitness ==
    /\ GenDone
    /\ gen.entry = "handler"
    /\ gen.url = Some("not a url")
    /\ gen.query[1].scheduleId # None
    /\ gen.query[1].reportParams = Some("all")
    /\ gen.env.failAt = "none"
    /\ gen.statusCode = Some(400)

----------------------------------------------------------------------------
(* C24  Password protection is not available for scheduled reports: for a  *)
(* request to the handler that carries a scheduleId, the PDF uploaded to   *)
(* S3 is never encrypted.                                                  *)

ScheduledNeverEncrypted ==
    GenDone /\ gen.entry = "handler" /\ Truthy(gen.query[1].scheduleId) =>
        \A i \in EventsAt(gen.events, "upload") : ~gen.events[i].body.encrypted

----------------------------------------------------------------------------
(* C26  Budget and print engine use the same page geometry: whenever a     *)
(* pivot, data or aggregate table is paginated and then printed, the       *)
(* pageSize and orientation of the paginator are the format and the        *)
(* landscape setting of the pdf options, in the single-sheet and in the    *)
(* all-sheets path, with options.pageSize and options.orientation set or   *)
(* omitted.                                                                *)

SameGeometry ==
    GenDone =>
        \A i \in EventsAt(gen.events, "paginate") :
            i < Len(gen.events) /\ gen.events[i + 1].e = "pdf" =>
                /\ gen.events[i].pageSize = gen.events[i + 1].format
                /\ (gen.events[i].orientation = "landscape") = gen.events[i + 1].landscape

----------------------------------------------------------------------------
(* C27  Browser release: when a run of generatePdf, generateAllSheetsPdf   *)
(* or generateCsv is over, returned or thrown, every browser it launched   *)
(* has been closed, after its launch, and it closed no browser it had not  *)
(* launched.                                                               *)

BrowserReleased ==
    GenDone =>
        LET launches == EventsAt(gen.events, "launch")
            closes == EventsAt(gen.events, "close")
        IN  /\ Cardinality(launches) = Cardinality(closes)
            /\ \A i \in launches : \E j \in closes : i < j
            /\ \A j \in closes : \E i \in launches : i < j

BrowserReleasedWitness ==
    /\ GenDone
    /\ gen.entry = "generatePdf"
    /\ gen.completion = "throw"
    /\ gen.env.failAt = "pdf"
    /\ gen.env.failSheet = 2
    /\ EventsAt(gen.events, "pdf") # {}
    /\ EventsAt(gen.events, "close") # {}

----------------------------------------------------------------------------
(* Email sender: the handler run on the S3 event of an uploaded report     *)
(*                                                                         *)
(* mail.state is the position of the handler; mail.scheduleId is its local *)
(* variable scheduleId, undefined until the tags are read; mail.sent tells *)
(* that ses.sendRawEmail has succeeded; mail.reports are the status        *)
(* updates posted to the schedule API, in order.                           *)

\* what the schedule API answers to a status update
ResponseInputs == {"ok", "notOk", "rejected", "badJson"}

\* the tags of the object and the environment of the function
MailInputs ==
    [scheduleId : {None, Some("schedule-1")},
     recipients : {"", "ops@example.com"},
     appUrl : BOOLEAN,
     apiKey : BOOLEAN]

\* updateSubscriptionStatus(scheduleId, status) answered by response:
\* throws before the request when the environment is not set, after it when
\* the response is not ok or has no JSON body
updateSubscriptionStatus(m, status, response) ==
    IF ~m.input.appUrl \/ ~m.input.apiKey
      THEN [m EXCEPT !.updateThrew = TRUE]
    ELSE [m EXCEPT !.reports = Append(@, [status |-> status, response |-> response]),
                   !.updateThrew = (response # "ok")]

MailInit ==
    /\ data = None
    /\ options = NoOptions
    /\ called = "none"
    /\ result = NotCalled
    /\ args = NoArgs
    /\ dataRows = NoDataRows
    /\ now = 0
    /\ dom = Idle
    /\ sw = Idle
    /\ gen = Idle
    /\ mail = Idle
    /\ sched = Idle

MailUnchanged ==
    /\ UNCHANGED <<now, dom, sw, gen, sched>>
    /\ UNCHANGED paginatorVars

\* the handler is invoked: let scheduleId; try {
S3Event ==
    /\ mail.state = "idle"
    /\ \E input \in MailInputs :
          mail' = [state |-> "getObjectTagging", input |-> input, scheduleId |-> None,
                   sent |-> FALSE, reports |-> <<>>, updateThrew |-> FALSE]
    /\ MailUnchanged

\* await s3.getObjectTagging(tagParams).promise(); scheduleId = tags.scheduleId
GetObjectTagging ==
    /\ mail.state = "getObjectTagging"
    /\ \E ok \in BOOLEAN :
          mail' = IF ok THEN [mail EXCEPT !.state = "recipients",
                                          !.scheduleId = mail.input.scheduleId]
                  ELSE [mail EXCEPT !.state = "catch"]
    /\ MailUnchanged

\* the recipients: from getScheduleDetails and the tags for a scheduled report,
\* from the tags for a direct email; no valid recipient throws
Recipients ==
    /\ mail.state = "recipients"
    /\ \E detailsOk \in BOOLEAN :
          mail' = IF (Truthy(mail.scheduleId) /\ ~detailsOk) \/ mail.input.recipients = ""
                    THEN [mail EXCEPT !.state = "catch"]
                  ELSE [mail EXCEPT !.state = "getObject"]
    /\ MailUnchanged

\* await s3.getObject(objectParams).promise()
GetObject ==
    /\ mail.state = "getObject"
    /\ \E ok \in BOOLEAN :
          mail' = [mail EXCEPT !.state = IF ok THEN "sendRawEmail" ELSE "catch"]
    /\ MailUnchanged

\* await ses.sendRawEmail(emailParams).promise()
SendRawEmail ==
    /\ mail.state = "sendRawEmail"
    /\ \E ok \in BOOLEAN :
          mail' = IF ok THEN [mail EXCEPT !.state = "success", !.sent = TRUE]
                  ELSE [mail EXCEPT !.state = "catch"]
    /\ MailUnchanged

\* if (scheduleId) await updateSubscriptionStatus(scheduleId, 'success'); return
ReportSuccess ==
    /\ mail.state = "success"
    /\ \E response \in ResponseInputs :
          LET m == IF Truthy(mail.scheduleId)
                     THEN updateSubscriptionStatus(mail, "success", response)
                   ELSE mail
          IN  mail' = [m EXCEPT !.state = IF m.updateThrew THEN "catch" ELSE "returned",
                                !.updateThrew = FALSE]
    /\ MailUnchanged

\* catch (error) { if (scheduleId) await updateSubscriptionStatus(scheduleId, 'error');
\* throw error }
CatchError ==
    /\ mail.state = "catch"
    /\ \E response \in ResponseInputs :
          LET m == IF Truthy(mail.scheduleId)
                     THEN updateSubscriptionStatus(mail, "error", response)
                   ELSE mail
          IN  mail' = [m EXCEPT !.state = "threw"]
    /\ MailUnchanged

MailNext ==
    \/ S3Event
    \/ GetObjectTagging
    \/ Recipients
    \/ GetObject
    \/ SendRawEmail
    \/ ReportSuccess
    \/ CatchError

MailSpec == MailInit /\ [][MailNext]_vars

----------------------------------------------------------------------------
(* C28  Delivery status matches delivery: the email sender posts status    *)
(* 'success' for a schedule only when the SES send has succeeded, and      *)
(* posts status 'error' only in runs whose email has not been sent.        *)

DeliveryStatusMatches ==
    mail.state # "idle" =>
        \A i \in 1..Len(mail.reports) :
            /\ mail.reports[i].status = "success" => mail.sent
            /\ mail.reports[i].status = "error" => ~mail.sent

----------------------------------------------------------------------------
(* Schedule processor: the handler that fetches the ready schedules and    *)
(* invokes the generation function once per attachment                     *)
(*                                                                         *)
(* A schedule is given by the number of its attachments.  The callbacks of *)
(* schedules.map and attachments.map run up to lambda.invoke one after the *)
(* other, so the invocations are issued in order (sched.invocations); they *)
(* settle in any order (sched.settled); the handler resumes when all have  *)
(* settled.                                                                *)

\* most schedules the API returns, most attachments of a schedule
MaxSchedules == 2
MaxAttachments == 2

ScheduleInputs == UNION {[1..n -> 0..MaxAttachments] : n \in 0..MaxSchedules}

SchedEnvInputs == [appUrl : BOOLEAN, apiKey : BOOLEAN, getOk : BOOLEAN]

\* attachments.map(...) of schedule s with n attachments: one invoke each
RECURSIVE AttachmentInvocations(_, _, _)
AttachmentInvocations(s, a, n) ==
    IF a > n THEN <<>>
    ELSE <<[schedule |-> s, attachment |-> a]>> \o AttachmentInvocations(s, a + 1, n)

\* schedules.map(...): a schedule without attachments returns before any invoke
RECURSIVE ScheduleInvocations(_, _)
ScheduleInvocations(schedules, s) ==
    IF s > Len(schedules) THEN <<>>
    ELSE AttachmentInvocations(s, 1, schedules[s]) \o ScheduleInvocations(schedules, s + 1)

\* .then(() => ({status: 'triggered'})).catch((error) => ({status: 'error'}))
attachmentResult(outcome) == IF outcome = "fulfilled" THEN "triggered" ELSE "error"

\* the status computed with some in place of every
scheduleStatusSome(attachmentResults) ==
    IF \E a \in DOMAIN attachmentResults : attachmentResults[a] = "triggered"
      THEN "all_triggered"
    ELSE "partial"

\* attachmentResults.every((r) => r.status === 'triggered') ? 'all_triggered' : 'partial'
scheduleStatus(attachmentResults) ==
    IF \A a \in DOMAIN attachmentResults : attachmentResults[a] = "triggered"
      THEN "all_triggered"
    ELSE "partial"

\* the result of the callback of schedules.map
scheduleResult(n, outcomes) ==
    IF n = 0 THEN [status |-> "skipped", attachmentResults |-> <<>>]
    ELSE LET attachmentResults == [a \in 1..n |-> attachmentResult(outcomes[a])]
         IN  [status |-> scheduleStatus(attachmentResults),
              attachmentResults |-> attachmentResults]

SchedInit ==
    /\ data = None
    /\ options = NoOptions
    /\ called = "none"
    /\ result = NotCalled
    /\ args = NoArgs
    /\ dataRows = NoDataRows
    /\ now = 0
    /\ dom = Idle
    /\ sw = Idle
    /\ gen = Idle
    /\ mail = Idle
    /\ sched = Idle

SchedUnchanged ==
    /\ UNCHANGED <<now, dom, sw, gen, mail>>
    /\ UNCHANGED paginatorVars

SchedulerResponse(env, schedules, invocations, settled, results, statusCode) ==
    [state |-> "returned", env |-> env, schedules |-> schedules,
     invocations |-> invocations, settled |-> settled, results |-> results,
     statusCode |-> Some(statusCode)]

\* the handler up to await Promise.all(promises)
ProcessSchedules ==
    /\ sched.state = "idle"
    /\ \E env \in SchedEnvInputs, schedules \in ScheduleInputs :
          sched' =
            IF ~env.appUrl \/ ~env.apiKey \/ ~env.getOk
              THEN SchedulerResponse(env, schedules, <<>>, <<>>, <<>>, 500)
            ELSE IF Len(schedules) = 0
              THEN SchedulerResponse(env, schedules, <<>>, <<>>, <<>>, 200)
            ELSE [state |-> "waiting", env |-> env, schedules |-> schedules,
                  invocations |-> ScheduleInvocations(schedules, 1),
                  settled |-> [s \in 1..Len(schedules) |->
                                  [a \in 1..schedules[s] |-> "pending"]],
                  results |-> <<>>, statusCode |-> None]
    /\ SchedUnchanged

\* lambda.invoke(pdfParams).promise() of one attachment fulfils or rejects
InvokeSettles ==
    /\ sched.state = "waiting"
    /\ \E s \in DOMAIN sched.settled :
          \E a \in DOMAIN sched.settled[s] :
              /\ sched.settled[s][a] = "pending"
              /\ \E outcome \in {"fulfilled", "rejected"} :
                    sched' = [sched EXCEPT !.settled[s][a] = outcome]
    /\ SchedUnchanged

\* every promise has settled: results = await Promise.all(promises); return 200
ReturnResults ==
    /\ sched.state = "waiting"
    /\ \A s \in DOMAIN sched.settled :
          \A a \in DOMAIN sched.settled[s] : sched.settled[s][a] # "pending"
    /\ sched' = SchedulerResponse(sched.env, sched.schedules, sched.invocations, sched.settled,
                         [s \in DOMAIN sched.schedules |->
                             scheduleResult(sched.schedules[s], sched.settled[s])],
                         200)
    /\ SchedUnchanged

SchedNext ==
    \/ ProcessSchedules
    \/ InvokeSettles
    \/ ReturnResults

SchedSpec == SchedInit /\ [][SchedNext]_vars

----------------------------------------------------------------------------
(* C29  Failure isolation in the schedule processor: once the schedules    *)
(* are fetched, exactly one invocation has been attempted for every        *)
(* attachment of every schedule and none for a schedule without            *)
(* attachments, whatever the other invocations do; the handler then        *)
(* returns 200, with status 'skipped' for a schedule without attachments,  *)
(* 'all_triggered' for one whose invocations all succeeded and 'partial'   *)
(* for any other.                                                          *)

SchedulesFetched ==
    /\ sched.state \in {"waiting", "returned"}
    /\ sched.env.appUrl /\ sched.env.apiKey /\ sched.env.getOk
    /\ Len(sched.schedules) > 0

InvocationsOf(s, a) ==
    {i \in 1..Len(sched.invocations) :
        sched.invocations[i] = [schedule |-> s, attachment |-> a]}

FailureIsolation ==
    SchedulesFetched =>
        /\ \A s \in 1..Len(sched.schedules) :
              \A a \in 1..sched.schedules[s] : Cardinality(InvocationsOf(s, a)) = 1
        /\ \A i \in 1..Len(sched.invocations) :
              /\ sched.invocations[i].schedule \in 1..Len(sched.schedules)
              /\ sched.invocations[i].attachment \in
                    1..sched.schedules[sched.invocations[i].schedule]
        /\ sched.state = "returned" =>
              /\ sched.statusCode = Some(200)
              /\ \A s \in 1..Len(sched.schedules) :
                    LET status == sched.results[s].status
                    IN  /\ sched.schedules[s] = 0 <=> status = "skipped"
                        /\ sched.schedules[s] > 0 =>
                              /\ status \in {"all_triggered", "partial"}
                              /\ status = "all_triggered" <=>
                                    \A a \in 1..sched.schedules[s] :
                                        sched.settled[s][a] = "fulfilled"

FailureIsolationWitness ==
    /\ SchedulesFetched
    /\ sched.state = "returned"
    /\ Len(sched.schedules) = 2
    /\ sched.schedules[1] = 2
    /\ sched.settled[1] = <<"rejected", "fulfilled">>
    /\ sched.results[1].status = "partial"
    /\ sched.results[2].status = "all_triggered"

====
